---- MODULE Spec2Model ----
(***************************************************************************)
(* Animation helpers of the terminal-themed site: the IntroController      *)
(* (intro show/skip), the useTypewriterAnimation hook, the TerminalPrompt  *)
(* component, the typeWriter utilities, the ModalController, the           *)
(* GlitchAnimator and the ProgressBar component.                            *)
(*                                                                         *)
(* The helpers are independent: a behaviour follows one of them (comp),    *)
(* through up to MaxLoads page loads of one browser session.  Each record  *)
(* carries the session-storage key of its helper (flag) and the number of  *)
(* sessionStorage.setItem calls made since the load (writes).              *)
(*                                                                         *)
(* React (19, concurrent root): a state setter only enqueues an update;    *)
(* the component re-renders in a later task, which applies the queued      *)
(* updates in order and then runs the effects whose dependencies changed.  *)
(* A timer that is pending may fire before that task.  Updates made in a   *)
(* discrete input event (keydown) are rendered before the event ends.      *)
(***************************************************************************)
EXTENDS Integers, Sequences, FiniteSets, TLC

VARIABLES comp, ic, tw, tp, ty, tc, it, md, gl, pb

vars == <<comp, ic, tw, tp, ty, tc, it, md, gl, pb>>

\* ---- bounds ----
MaxLen == 3
MaxLoads == 2
MaxInits == 2
MaxQueue == 3
MaxOpens == 2
MaxTimers == 3
MaxPercent == 7

Alphabet == <<"a", "b", "c", "d", "e">>

Texts == {SubSeq(Alphabet, 1, n) : n \in 0..MaxLen}

Comps == {"ic", "tw", "tp", "ty", "tc", "it", "md", "gl", "pb"}

\* ======================= IntroController =======================

IcConfigs ==
  [showOnRefresh : BOOLEAN, skipOnKey : BOOLEAN, skipOnClick : BOOLEAN,
   onSkip : BOOLEAN, onComplete : BOOLEAN]

\* new IntroController(config) on a freshly loaded page
IcNew(cfg, reload, present, flag, loads) ==
  [cfg |-> cfg, isReload |-> reload, elemInDom |-> present,
   introElement |-> FALSE, hidden |-> FALSE,
   isSkipped |-> FALSE, isComplete |-> FALSE, skipHandlers |-> <<>>,
   fadeTimers |-> 0, onSkipCalls |-> 0, onCompleteCalls |-> 0,
   inits |-> 0, last |-> "new", initRet |-> "none", initFlag |-> FALSE,
   initElem |-> FALSE, initAttached |-> 0, shownEnded |-> FALSE,
   flag |-> flag, writes |-> 0, loads |-> loads]

IcIdle ==
  IcNew([showOnRefresh |-> TRUE, skipOnKey |-> TRUE, skipOnClick |-> TRUE,
         onSkip |-> FALSE, onComplete |-> FALSE], FALSE, FALSE, FALSE, 0)

\* _removeIntro
IcRemoveIntro(s) ==
  IF s.introElement /\ s.elemInDom THEN [s EXCEPT !.elemInDom = FALSE] ELSE s

\* _removeHandlers
IcRemoveHandlers(s) == [s EXCEPT !.skipHandlers = <<>>]

\* _hideIntro
IcHideIntro(s) ==
  IF ~s.introElement THEN s
  ELSE IcRemoveHandlers([s EXCEPT !.hidden = TRUE,
                                  !.fadeTimers = @ + 1])

\* init() that attaches the key handler only
IcAttach_KeyOnly(s) ==
  LET k == IF s.cfg.skipOnKey THEN <<"keydown">> ELSE <<>>
  IN [s EXCEPT !.skipHandlers = @ \o k, !.initAttached = Len(k)]

\* _attachKeyHandler / _attachClickHandler, as init() calls them
IcAttach(s) ==
  LET k == IF s.cfg.skipOnKey THEN <<"keydown">> ELSE <<>>
      c == IF s.cfg.skipOnClick THEN <<"click">> ELSE <<>>
  IN [s EXCEPT !.skipHandlers = @ \o k \o c,
               !.initAttached = Len(k) + Len(c)]

\* shouldShow that shows on every load when showOnRefresh is false
IcShouldShow_IgnoreFlag(s) == IF s.cfg.showOnRefresh THEN s.isReload ELSE TRUE

\* shouldShow that also consults the key when showOnRefresh is true
IcShouldShow_FlagOnReload(s) ==
  IF s.cfg.showOnRefresh THEN s.isReload /\ ~s.flag ELSE ~s.flag

\* shouldShow of init()
IcShouldShow(s) == IF s.cfg.showOnRefresh THEN s.isReload ELSE ~s.flag

\* init()
IcInitOp(s) ==
  LET s0 == [s EXCEPT !.introElement = s.elemInDom, !.inits = @ + 1,
                      !.last = "init", !.initFlag = s.flag,
                      !.initElem = s.elemInDom, !.initAttached = 0]
  IN IF ~s0.introElement THEN [s0 EXCEPT !.initRet = "false"]
     ELSE IF ~IcShouldShow(s0)
          THEN [IcRemoveIntro(s0) EXCEPT !.initRet = "false"]
          ELSE [IcAttach(s0) EXCEPT !.initRet = "true"]

\* skip() without its early return
IcSkipOp_NoGuard(s) ==
  IcHideIntro([s EXCEPT !.isSkipped = TRUE, !.last = "skip",
                !.onSkipCalls = IF s.cfg.onSkip THEN @ + 1 ELSE @])

\* skip()
IcSkipOp(s) ==
  IF s.isSkipped \/ s.isComplete THEN [s EXCEPT !.last = "skip"]
  ELSE IcHideIntro([s EXCEPT !.isSkipped = TRUE, !.last = "skip",
                     !.onSkipCalls = IF s.cfg.onSkip THEN @ + 1 ELSE @])

\* complete() that checks isComplete only
IcCompleteOp_NoSkipCheck(s) ==
  IF s.isComplete THEN [s EXCEPT !.last = "complete"]
  ELSE IcHideIntro([s EXCEPT !.isComplete = TRUE, !.last = "complete",
                     !.flag = TRUE, !.writes = @ + 1,
                     !.onCompleteCalls = IF s.cfg.onComplete THEN @ + 1 ELSE @])

\* complete()
IcCompleteOp(s) ==
  IF s.isSkipped \/ s.isComplete THEN [s EXCEPT !.last = "complete"]
  ELSE IcHideIntro([s EXCEPT !.isComplete = TRUE, !.last = "complete",
                     !.flag = TRUE, !.writes = @ + 1,
                     !.onCompleteCalls = IF s.cfg.onComplete THEN @ + 1 ELSE @])

\* destroy() that also removes the storage key
IcDestroyOp_ClearsKey(s) ==
  [IcRemoveHandlers(s) EXCEPT !.introElement = FALSE, !.last = "destroy",
                              !.flag = FALSE]

\* destroy()
IcDestroyOp(s) ==
  [IcRemoveHandlers(s) EXCEPT !.introElement = FALSE, !.last = "destroy"]

\* records that an intro init() showed with showOnRefresh = false has ended
IcMarkEnded(old, new) ==
  IF /\ old.initRet = "true" /\ ~old.cfg.showOnRefresh
     /\ ~(old.isSkipped \/ old.isComplete)
     /\ (new.isSkipped \/ new.isComplete)
  THEN [new EXCEPT !.shownEnded = TRUE]
  ELSE new

IcHasHandler(s, type) ==
  \E i \in 1..Len(s.skipHandlers) : s.skipHandlers[i] = type

IcOthers == UNCHANGED <<comp, tw, tp, ty, tc, it, md, gl, pb>>

\* a page of the session loads and constructs its controller
IcPageLoad ==
  /\ comp = "ic" /\ ic.loads < MaxLoads
  /\ \E cfg \in IcConfigs, reload \in BOOLEAN, present \in BOOLEAN :
       ic' = [IcNew(cfg, reload, present, ic.flag, ic.loads + 1)
                EXCEPT !.shownEnded = ic.shownEnded]
  /\ IcOthers

IcInit ==
  /\ comp = "ic" /\ ic.loads > 0 /\ ic.inits < MaxInits
  /\ ic' = IcInitOp(ic)
  /\ IcOthers

IcSkip ==
  /\ comp = "ic" /\ ic.loads > 0
  /\ ic' = IcMarkEnded(ic, IcSkipOp(ic))
  /\ IcOthers

\* a keydown / click on the document reaches the registered handler
IcEvent ==
  /\ comp = "ic" /\ ic.loads > 0
  /\ \E type \in {"keydown", "click"} :
       /\ IcHasHandler(ic, type)
       /\ ic' = IcMarkEnded(ic, [IcSkipOp(ic) EXCEPT !.last = type])
  /\ IcOthers

IcComplete ==
  /\ comp = "ic" /\ ic.loads > 0
  /\ ic' = IcMarkEnded(ic, IcCompleteOp(ic))
  /\ IcOthers

IcDestroy ==
  /\ comp = "ic" /\ ic.loads > 0
  /\ ic' = IcDestroyOp(ic)
  /\ IcOthers

\* the fadeOutDuration timer of _hideIntro fires
IcFadeTimer ==
  /\ comp = "ic" /\ ic.fadeTimers > 0
  /\ ic' = [IcRemoveIntro(ic) EXCEPT !.fadeTimers = @ - 1, !.last = "fade"]
  /\ IcOthers

\* ======================= React state updates =======================

\* the string JavaScript appends for text[i] when i is past the end
Undefined == <<"u", "n", "d", "e", "f", "i", "n", "e", "d">>

\* text[i] of JavaScript (i counted from 0), as the string it concatenates to
CharAt(text, i) == IF i < Len(text) THEN <<text[i + 1]>> ELSE Undefined

\* one queued setDisplayText: a value ("set"), an updater already evaluated
\* when it was queued ("app"), or an updater evaluated at render ("lazy"),
\* which reads the index the ref holds then
ApplyUpdate(d, u, text, idx) ==
  CASE u.k = "set" -> u.v
    [] u.k = "app" -> d \o u.v
    [] u.k = "lazy" -> d \o CharAt(text, idx)

RECURSIVE ApplyUpdates(_, _, _, _)
ApplyUpdates(d, q, text, idx) ==
  IF q = <<>> THEN d
  ELSE ApplyUpdates(ApplyUpdate(d, Head(q), text, idx), Tail(q), text, idx)

\* one queued setCurrentIndex: a value or the updater prev => prev + 1
RECURSIVE ApplyIndex(_, _)
ApplyIndex(i, q) ==
  IF q = <<>> THEN i
  ELSE ApplyIndex(IF Head(q).k = "set" THEN Head(q).v ELSE i + 1, Tail(q))

\* ======================= useTypewriterAnimation =======================

TwIdle ==
  [mounted |-> FALSE, text |-> <<>>, hasPlayed |-> FALSE,
   displayText |-> <<>>, isComplete |-> FALSE, index |-> 0, timer |-> FALSE,
   pendHasPlayed |-> FALSE, pendIsComplete |-> FALSE, pendDisplay |-> <<>>,
   flag |-> FALSE, writes |-> 0, ticks |-> 0, skipped |-> FALSE,
   mountFlag |-> FALSE, loads |-> 0, last |-> "new"]

\* markAsPlayed that only sets the React state
TwMarkAsPlayed_NoStore(s) == [s EXCEPT !.pendHasPlayed = TRUE]

\* markAsPlayed of useSessionAnimation
TwMarkAsPlayed(s) ==
  [s EXCEPT !.flag = TRUE, !.writes = @ + 1, !.pendHasPlayed = TRUE]

\* the effect "Initialize display text based on session state"
TwInitEffect(s) ==
  IF s.hasPlayed
  THEN [s EXCEPT !.pendDisplay = Append(@, [k |-> "set", v |-> s.text]),
                 !.pendIsComplete = TRUE, !.index = Len(s.text)]
  ELSE s

\* the effect "Typewriter animation"
TwTypeEffect(s) ==
  IF s.hasPlayed \/ s.isComplete THEN s
  ELSE IF s.index < Len(s.text) THEN [s EXCEPT !.timer = TRUE]
  ELSE IF s.index = Len(s.text)
       THEN TwMarkAsPlayed([s EXCEPT !.pendIsComplete = TRUE])
       ELSE s

\* the cleanup the typewriter effect returned
TwTypeCleanup(s) == [s EXCEPT !.timer = FALSE]

\* first render and its effects: useSessionAnimation reads the key and
\* queues setHasPlayed(true); the two other effects still see hasPlayed false
TwMountOp(text, flag, loads) ==
  LET s0 == [TwIdle EXCEPT !.mounted = TRUE, !.text = text, !.flag = flag,
                           !.mountFlag = flag, !.loads = loads,
                           !.last = "mount"]
      s1 == IF s0.flag THEN [s0 EXCEPT !.pendHasPlayed = TRUE] ELSE s0
  IN TwTypeEffect(TwInitEffect(s1))

\* the callback of the reveal timer
TwTickOp(s, k) ==
  [s EXCEPT !.timer = FALSE, !.ticks = @ + 1, !.last = "tick",
            !.pendDisplay =
               Append(@, IF k = "app"
                         THEN [k |-> "app", v |-> CharAt(s.text, s.index)]
                         ELSE [k |-> "lazy", v |-> <<>>]),
            !.index = @ + 1]

\* a re-render: the queued updates are applied; when the state changed the
\* effects run (the typewriter effect after every such render, since
\* markAsPlayed is a new function each render)
TwRenderOp(s) ==
  LET d == ApplyUpdates(s.displayText, s.pendDisplay, s.text, s.index)
      hp == s.hasPlayed \/ s.pendHasPlayed
      c == s.isComplete \/ s.pendIsComplete
      changed == d # s.displayText \/ hp # s.hasPlayed \/ c # s.isComplete
      s1 == [s EXCEPT !.displayText = d, !.hasPlayed = hp, !.isComplete = c,
                      !.pendDisplay = <<>>, !.pendHasPlayed = FALSE,
                      !.pendIsComplete = FALSE, !.last = "render"]
      s2 == TwTypeCleanup(s1)
      s3 == IF hp # s.hasPlayed THEN TwInitEffect(s2) ELSE s2
  IN IF changed THEN TwTypeEffect(s3) ELSE s1

\* skip() that leaves the pending timer alone
TwSkipOp_NoClear(s) ==
  IF ~s.isComplete
  THEN TwMarkAsPlayed(
         [s EXCEPT !.pendDisplay = Append(@, [k |-> "set", v |-> s.text]),
                   !.index = Len(s.text), !.pendIsComplete = TRUE,
                   !.skipped = TRUE, !.last = "skip"])
  ELSE [s EXCEPT !.last = "skip"]

\* skip(), as returned by the last render
TwSkipOp(s) ==
  IF ~s.isComplete
  THEN TwMarkAsPlayed(
         [s EXCEPT !.timer = FALSE,
                   !.pendDisplay = Append(@, [k |-> "set", v |-> s.text]),
                   !.index = Len(s.text), !.pendIsComplete = TRUE,
                   !.skipped = TRUE, !.last = "skip"])
  ELSE [s EXCEPT !.last = "skip"]

\* unmount: the cleanup runs and the queued updates are dropped
TwUnmountOp(s) ==
  [TwTypeCleanup(s) EXCEPT !.mounted = FALSE, !.pendDisplay = <<>>,
                           !.pendHasPlayed = FALSE, !.pendIsComplete = FALSE,
                           !.last = "unmount"]

TwPending(s) ==
  s.pendHasPlayed \/ s.pendIsComplete \/ s.pendDisplay # <<>>

\* what the next render will display
TwShown(s) == ApplyUpdates(s.displayText, s.pendDisplay, s.text, s.index)

TwOthers == UNCHANGED <<comp, ic, tp, ty, tc, it, md, gl, pb>>

TwMount ==
  /\ comp = "tw" /\ ~tw.mounted /\ tw.loads < MaxLoads
  /\ \E text \in Texts : tw' = TwMountOp(text, tw.flag, tw.loads + 1)
  /\ TwOthers

TwTick ==
  /\ comp = "tw" /\ tw.mounted /\ tw.timer
  /\ \E k \in {"app", "lazy"} : tw' = TwTickOp(tw, k)
  /\ TwOthers

TwRender ==
  /\ comp = "tw" /\ tw.mounted /\ TwPending(tw)
  /\ tw' = TwRenderOp(tw)
  /\ TwOthers

\* skip() may be called again before the render it asked for
TwSkip ==
  /\ comp = "tw" /\ tw.mounted /\ Len(tw.pendDisplay) < MaxQueue
  /\ tw' = TwSkipOp(tw)
  /\ TwOthers

TwUnmount ==
  /\ comp = "tw" /\ tw.mounted
  /\ tw' = TwUnmountOp(tw)
  /\ TwOthers

\* ======================= TerminalPrompt =======================

\* 'user@terminal:~$ ' followed by the block character (written "#")
fullText ==
  <<"u", "s", "e", "r", "@", "t", "e", "r", "m", "i", "n", "a", "l", ":",
    "~", "$", " ", "#">>

TpIdle ==
  [mounted |-> FALSE, displayText |-> <<>>, currentIndex |-> 0,
   hasPlayed |-> FALSE, timer |-> FALSE,
   pendDisplay |-> <<>>, pendIndex |-> <<>>, pendHasPlayed |-> FALSE,
   flag |-> FALSE, writes |-> 0, ticks |-> 0, skipped |-> FALSE,
   mountFlag |-> FALSE, loads |-> 0, last |-> "new"]

\* the first effect (session check, reveal timer, completion)
TpRevealEffect(s) ==
  IF s.flag
  THEN [s EXCEPT !.pendDisplay = Append(@, [k |-> "set", v |-> fullText]),
                 !.pendIndex = Append(@, [k |-> "set", v |-> Len(fullText)]),
                 !.pendHasPlayed = TRUE]
  ELSE IF s.currentIndex < Len(fullText) THEN [s EXCEPT !.timer = TRUE]
  ELSE IF s.currentIndex = Len(fullText) /\ ~s.hasPlayed
       THEN [s EXCEPT !.flag = TRUE, !.writes = @ + 1,
                      !.pendHasPlayed = TRUE]
       ELSE s

\* the cleanup the first effect returned
TpRevealCleanup(s) == [s EXCEPT !.timer = FALSE]

TpMountOp(flag, loads) ==
  TpRevealEffect([TpIdle EXCEPT !.mounted = TRUE, !.flag = flag,
                                !.mountFlag = flag, !.loads = loads,
                                !.last = "mount"])

\* the callback of the reveal timer; currentIndex is the value of the render
\* that scheduled it
TpTickOp(s) ==
  [s EXCEPT !.timer = FALSE, !.ticks = @ + 1, !.last = "tick",
            !.pendDisplay =
               Append(@, [k |-> "app", v |-> CharAt(fullText, s.currentIndex)]),
            !.pendIndex = Append(@, [k |-> "inc", v |-> 0])]

\* a re-render whose first effect has no dependencies (runs on mount only)
TpRenderOp_MountOnly(s) ==
  [s EXCEPT !.displayText = ApplyUpdates(s.displayText, s.pendDisplay,
                                         fullText, 0),
            !.currentIndex = ApplyIndex(s.currentIndex, s.pendIndex),
            !.hasPlayed = s.hasPlayed \/ s.pendHasPlayed,
            !.pendDisplay = <<>>, !.pendIndex = <<>>,
            !.pendHasPlayed = FALSE]

\* a re-render; the first effect has dependencies [currentIndex, hasPlayed]
TpRenderOp(s) ==
  LET d == ApplyUpdates(s.displayText, s.pendDisplay, fullText, 0)
      i == ApplyIndex(s.currentIndex, s.pendIndex)
      hp == s.hasPlayed \/ s.pendHasPlayed
      s1 == [s EXCEPT !.displayText = d, !.currentIndex = i,
                      !.hasPlayed = hp, !.pendDisplay = <<>>,
                      !.pendIndex = <<>>, !.pendHasPlayed = FALSE]
  IN IF i # s.currentIndex \/ hp # s.hasPlayed
     THEN TpRevealEffect(TpRevealCleanup(s1))
     ELSE s1

\* handleKeyPress, with hasPlayed of the render that attached it
TpHandleKeyPress(s) ==
  IF ~s.hasPlayed
  THEN [s EXCEPT !.pendDisplay = Append(@, [k |-> "set", v |-> fullText]),
                 !.pendIndex = Append(@, [k |-> "set", v |-> Len(fullText)]),
                 !.flag = TRUE, !.writes = @ + 1, !.pendHasPlayed = TRUE,
                 !.skipped = TRUE]
  ELSE s

TpUnmountOp(s) ==
  [TpRevealCleanup(s) EXCEPT !.mounted = FALSE, !.pendDisplay = <<>>,
                             !.pendIndex = <<>>, !.pendHasPlayed = FALSE,
                             !.last = "unmount"]

TpPending(s) ==
  s.pendHasPlayed \/ s.pendDisplay # <<>> \/ s.pendIndex # <<>>

TpShown(s) == ApplyUpdates(s.displayText, s.pendDisplay, fullText, 0)

TpShownIndex(s) == ApplyIndex(s.currentIndex, s.pendIndex)

TpOthers == UNCHANGED <<comp, ic, tw, ty, tc, it, md, gl, pb>>

TpMount ==
  /\ comp = "tp" /\ ~tp.mounted /\ tp.loads < MaxLoads
  /\ tp' = TpMountOp(tp.flag, tp.loads + 1)
  /\ TpOthers

TpTick ==
  /\ comp = "tp" /\ tp.mounted /\ tp.timer
  /\ tp' = TpTickOp(tp)
  /\ TpOthers

TpRender ==
  /\ comp = "tp" /\ tp.mounted /\ TpPending(tp)
  /\ tp' = [TpRenderOp(tp) EXCEPT !.last = "render"]
  /\ TpOthers

\* keydown on window: the handler runs and React renders its updates before
\* the event ends
TpKeydown ==
  /\ comp = "tp" /\ tp.mounted
  /\ tp' = [TpRenderOp(TpHandleKeyPress(tp)) EXCEPT !.last = "keydown"]
  /\ TpOthers

TpUnmount ==
  /\ comp = "tp" /\ tp.mounted
  /\ tp' = TpUnmountOp(tp)
  /\ TpOthers

\* ======================= typeWriter =======================

TwrOptions ==
  [startDelay : BOOLEAN, onCharacter : BOOLEAN, onComplete : BOOLEAN]

\* the element's text before the call
Bases == {<<>>, <<"x">>}

TyIdle ==
  [phase |-> "idle", text |-> <<>>, element |-> FALSE,
   options |-> [startDelay |-> FALSE, onCharacter |-> FALSE,
                onComplete |-> FALSE],
   base |-> <<>>, textContent |-> <<>>, index |-> 0, interval |-> FALSE,
   promise |-> "none", chars |-> <<>>, completes |-> 0, resolves |-> 0]

\* the new Promise(...) body of typeWriter: index = 0 and setInterval
TyStartOp(s) ==
  [s EXCEPT !.phase = "typing", !.index = 0, !.interval = TRUE]

\* typeWriter(text, element, options) up to its first await
TyCallOp(text, element, options, base) ==
  LET s == [TyIdle EXCEPT !.text = text, !.element = element,
                          !.options = options, !.base = base,
                          !.textContent = base, !.promise = "pending"]
  IN IF ~element THEN [s EXCEPT !.phase = "threw", !.promise = "rejected"]
     ELSE IF text = <<>>
          THEN [s EXCEPT !.phase = "done", !.promise = "resolved",
                         !.resolves = 1]
          ELSE IF options.startDelay THEN [s EXCEPT !.phase = "delay"]
               ELSE TyStartOp(s)

\* the callback with index <= text.length for index < text.length
TyTickOp_OffByOne(s) ==
  IF s.index <= Len(s.text)
  THEN [s EXCEPT !.textContent = @ \o CharAt(s.text, s.index),
                 !.chars = IF s.options.onCharacter
                           THEN Append(@, s.index) ELSE @,
                 !.index = @ + 1]
  ELSE [s EXCEPT !.interval = FALSE, !.phase = "done",
                 !.completes = IF s.options.onComplete THEN @ + 1 ELSE @,
                 !.resolves = @ + 1, !.promise = "resolved"]

\* the callback that fires onCharacter after index++
TyTickOp_LateCallback(s) ==
  IF s.index < Len(s.text)
  THEN [s EXCEPT !.textContent = @ \o CharAt(s.text, s.index),
                 !.chars = IF s.options.onCharacter
                           THEN Append(@, s.index + 1) ELSE @,
                 !.index = @ + 1]
  ELSE [s EXCEPT !.interval = FALSE, !.phase = "done",
                 !.completes = IF s.options.onComplete THEN @ + 1 ELSE @,
                 !.resolves = @ + 1, !.promise = "resolved"]

\* the setInterval callback of typeWriter
TyTickOp(s) ==
  IF s.index < Len(s.text)
  THEN [s EXCEPT !.textContent = @ \o CharAt(s.text, s.index),
                 !.chars = IF s.options.onCharacter
                           THEN Append(@, s.index) ELSE @,
                 !.index = @ + 1]
  ELSE [s EXCEPT !.interval = FALSE, !.phase = "done",
                 !.completes = IF s.options.onComplete THEN @ + 1 ELSE @,
                 !.resolves = @ + 1, !.promise = "resolved"]

TyOthers == UNCHANGED <<comp, ic, tw, tp, tc, it, md, gl, pb>>

TyCall ==
  /\ comp = "ty" /\ ty.phase = "idle"
  /\ \E text \in Texts, element \in BOOLEAN, options \in TwrOptions,
        base \in Bases :
       ty' = TyCallOp(text, element, options, base)
  /\ TyOthers

\* the start-delay timer fires
TyStartDelay ==
  /\ comp = "ty" /\ ty.phase = "delay"
  /\ ty' = TyStartOp(ty)
  /\ TyOthers

TyTick ==
  /\ comp = "ty" /\ ty.interval
  /\ ty' = TyTickOp(ty)
  /\ TyOthers

\* ======================= typeWriterCancellable =======================

TcIdle ==
  [phase |-> "idle", text |-> <<>>, element |-> FALSE,
   options |-> [startDelay |-> FALSE, onCharacter |-> FALSE,
                onComplete |-> FALSE],
   base |-> <<>>, textContent |-> <<>>, index |-> 0,
   cancelled |-> FALSE, intervalId |-> FALSE, interval |-> FALSE,
   delayTimer |-> FALSE, promise |-> "none", chars |-> <<>>,
   completes |-> 0, cancels |-> 0]

\* startTyping
TcStartTyping(s) ==
  [s EXCEPT !.phase = "typing", !.index = 0, !.intervalId = TRUE,
            !.interval = TRUE]

\* typeWriterCancellable(text, element, options): the promise executor
TcCallOp(text, element, options, base) ==
  LET s == [TcIdle EXCEPT !.text = text, !.element = element,
                          !.options = options, !.base = base,
                          !.textContent = base, !.promise = "pending"]
  IN IF ~element THEN [s EXCEPT !.phase = "done", !.promise = "rejected"]
     ELSE IF text = <<>>
          THEN [s EXCEPT !.phase = "done", !.promise = "resolved"]
          ELSE IF options.startDelay
               THEN [s EXCEPT !.phase = "delay", !.delayTimer = TRUE]
               ELSE TcStartTyping(s)

\* the start-delay callback
TcDelayOp(s) ==
  IF ~s.cancelled THEN TcStartTyping([s EXCEPT !.delayTimer = FALSE])
  ELSE [s EXCEPT !.delayTimer = FALSE]

\* the setInterval callback of startTyping
TcTickOp(s) ==
  IF s.cancelled
  THEN [s EXCEPT !.interval = FALSE, !.phase = "done",
                 !.promise = IF @ = "pending" THEN "cancelled" ELSE @]
  ELSE IF s.index < Len(s.text)
       THEN [s EXCEPT !.textContent = @ \o CharAt(s.text, s.index),
                      !.chars = IF s.options.onCharacter
                                THEN Append(@, s.index) ELSE @,
                      !.index = @ + 1]
       ELSE [s EXCEPT !.interval = FALSE, !.phase = "done",
                      !.completes = IF s.options.onComplete THEN @ + 1 ELSE @,
                      !.promise = IF @ = "pending" THEN "resolved" ELSE @]

\* cancel()
TcCancelOp(s) ==
  [s EXCEPT !.cancelled = TRUE, !.cancels = 1,
            !.interval = IF s.intervalId THEN FALSE ELSE @]

TcOthers == UNCHANGED <<comp, ic, tw, tp, ty, it, md, gl, pb>>

TcCall ==
  /\ comp = "tc" /\ tc.phase = "idle"
  /\ \E text \in Texts, element \in BOOLEAN, options \in TwrOptions,
        base \in Bases :
       tc' = TcCallOp(text, element, options, base)
  /\ TcOthers

TcDelay ==
  /\ comp = "tc" /\ tc.delayTimer
  /\ tc' = TcDelayOp(tc)
  /\ TcOthers

TcTick ==
  /\ comp = "tc" /\ tc.interval
  /\ tc' = TcTickOp(tc)
  /\ TcOthers

TcCancel ==
  /\ comp = "tc" /\ tc.phase # "idle"
  /\ tc' = TcCancelOp(tc)
  /\ TcOthers

\* ======================= instantText =======================

ItIdle ==
  [called |-> FALSE, text |-> <<>>, element |-> FALSE, base |-> <<>>,
   textContent |-> <<>>, dataText |-> <<>>, threw |-> FALSE]

\* instantText that returns when the element is missing
ItCallOp_Silent(text, element, base) ==
  LET s == [ItIdle EXCEPT !.called = TRUE, !.text = text,
                          !.element = element, !.base = base,
                          !.textContent = base]
  IN IF ~element THEN s
     ELSE [s EXCEPT !.textContent = text, !.dataText = text]

\* instantText(text, element)
ItCallOp(text, element, base) ==
  LET s == [ItIdle EXCEPT !.called = TRUE, !.text = text,
                          !.element = element, !.base = base,
                          !.textContent = base]
  IN IF ~element THEN [s EXCEPT !.threw = TRUE]
     ELSE [s EXCEPT !.textContent = text, !.dataText = text]

ItOthers == UNCHANGED <<comp, ic, tw, tp, ty, tc, md, gl, pb>>

ItCall ==
  /\ comp = "it" /\ ~it.called
  /\ \E text \in Texts, element \in BOOLEAN, base \in Bases :
       it' = ItCallOp(text, element, base)
  /\ ItOthers

\* ======================= ModalController =======================

MdConfigs ==
  [closeOnNavigation : BOOLEAN, closeOnEscape : BOOLEAN,
   closeOnResize : BOOLEAN]

\* the state before new ModalController(config); the modal of the page
\* starts hidden (display none, classes opacity-0 and invisible)
MdIdle ==
  [built |-> FALSE,
   cfg |-> [closeOnNavigation |-> TRUE, closeOnEscape |-> TRUE,
            closeOnResize |-> TRUE],
   modal |-> FALSE, triggers |-> 0, closeButtons |-> 0, listeners |-> {},
   isOpen |-> FALSE, display |-> "none", opacity0 |-> TRUE,
   invisible |-> TRUE, opacity100 |-> FALSE, ariaHidden |-> "unset",
   ariaExpanded |-> "unset", overflow |-> "", openTimers |-> 0,
   closeTimers |-> 0, onOpenCalls |-> 0, onCloseCalls |-> 0,
   destroyed |-> FALSE, last |-> "new"]

\* _attachListeners
MdAttachListeners(s) ==
  [s EXCEPT !.listeners =
     (IF s.triggers > 0 THEN {"trigger"} ELSE {})
     \cup (IF s.closeButtons > 0 THEN {"closeButton"} ELSE {})
     \cup (IF s.cfg.closeOnNavigation THEN {"navLink"} ELSE {})
     \cup (IF s.cfg.closeOnEscape THEN {"keydown"} ELSE {})
     \cup (IF s.cfg.closeOnResize THEN {"resize"} ELSE {})]

\* constructor and _init
MdNew(cfg, modal, triggers, closeButtons) ==
  LET s == [MdIdle EXCEPT !.built = TRUE, !.cfg = cfg, !.modal = modal]
  IN IF ~modal THEN s
     ELSE MdAttachListeners([s EXCEPT !.triggers = triggers,
                                      !.closeButtons = closeButtons])

\* open() without its test of isOpen
MdOpenOp_Reopen(s) ==
  IF ~s.modal THEN s
  ELSE [s EXCEPT !.isOpen = TRUE, !.display = "flex",
                 !.openTimers = @ + 1, !.ariaHidden = "false",
                 !.ariaExpanded = IF s.triggers > 0 THEN "true" ELSE @,
                 !.overflow = "hidden", !.onOpenCalls = @ + 1]

\* open() without its test of the modal element
MdOpenOp_NoModalCheck(s) ==
  IF s.isOpen THEN s
  ELSE [s EXCEPT !.isOpen = TRUE, !.display = "flex",
                 !.openTimers = @ + 1, !.ariaHidden = "false",
                 !.ariaExpanded = IF s.triggers > 0 THEN "true" ELSE @,
                 !.overflow = "hidden", !.onOpenCalls = @ + 1]

\* open()
MdOpenOp(s) ==
  IF s.isOpen \/ ~s.modal THEN s
  ELSE [s EXCEPT !.isOpen = TRUE, !.display = "flex",
                 !.openTimers = @ + 1, !.ariaHidden = "false",
                 !.ariaExpanded = IF s.triggers > 0 THEN "true" ELSE @,
                 !.overflow = "hidden", !.onOpenCalls = @ + 1]

\* close(instant) that leaves the aria attributes alone
MdCloseOp_KeepAria(s, instant) ==
  IF ~s.isOpen \/ ~s.modal THEN s
  ELSE LET s1 == [s EXCEPT !.isOpen = FALSE, !.opacity100 = FALSE,
                           !.opacity0 = TRUE, !.invisible = TRUE]
           s2 == IF instant
                 THEN [s1 EXCEPT !.display = "none", !.overflow = ""]
                 ELSE [s1 EXCEPT !.closeTimers = @ + 1]
       IN [s2 EXCEPT !.onCloseCalls = @ + 1]

\* close(instant)
MdCloseOp(s, instant) ==
  IF ~s.isOpen \/ ~s.modal THEN s
  ELSE LET s1 == [s EXCEPT !.isOpen = FALSE, !.opacity100 = FALSE,
                           !.opacity0 = TRUE, !.invisible = TRUE]
           s2 == IF instant
                 THEN [s1 EXCEPT !.display = "none", !.overflow = ""]
                 ELSE [s1 EXCEPT !.closeTimers = @ + 1]
       IN [s2 EXCEPT !.ariaHidden = "true",
                     !.ariaExpanded = IF s.triggers > 0 THEN "false" ELSE @,
                     !.onCloseCalls = @ + 1]

\* toggle()
MdToggleOp(s) == IF s.isOpen THEN MdCloseOp(s, FALSE) ELSE MdOpenOp(s)

\* destroy()
MdDestroyOp(s) == [MdCloseOp(s, TRUE) EXCEPT !.destroyed = TRUE]

\* the 10 ms callback of open()
MdOpenTimerOp(s) ==
  [s EXCEPT !.openTimers = @ - 1, !.opacity0 = FALSE, !.invisible = FALSE,
            !.opacity100 = TRUE]

\* the transitionDuration callback of close()
MdCloseTimerOp(s) ==
  [s EXCEPT !.closeTimers = @ - 1, !.display = "none", !.overflow = ""]

\* the Escape keydown listener
MdEscapeOp(s) == IF s.isOpen THEN MdCloseOp(s, FALSE) ELSE s

\* the resize listener
MdResizeOp(s, wide) == IF wide /\ s.isOpen THEN MdCloseOp(s, FALSE) ELSE s

MdOthers == UNCHANGED <<comp, ic, tw, tp, ty, tc, it, gl, pb>>

MdConstruct ==
  /\ comp = "md" /\ ~md.built
  /\ \E cfg \in MdConfigs, modal \in BOOLEAN, triggers \in 0..1,
        closeButtons \in 0..1 :
       md' = MdNew(cfg, modal, triggers, closeButtons)
  /\ MdOthers

MdOpen ==
  /\ comp = "md" /\ md.built /\ md.onOpenCalls < MaxOpens
  /\ md' = [MdOpenOp(md) EXCEPT !.last = "open"]
  /\ MdOthers

MdClose ==
  /\ comp = "md" /\ md.built
  /\ \E instant \in BOOLEAN :
       md' = [MdCloseOp(md, instant) EXCEPT !.last = "close"]
  /\ MdOthers

MdToggle ==
  /\ comp = "md" /\ md.built
  /\ md.isOpen \/ md.onOpenCalls < MaxOpens
  /\ md' = [MdToggleOp(md) EXCEPT !.last = "toggle"]
  /\ MdOthers

MdDestroy ==
  /\ comp = "md" /\ md.built
  /\ md' = [MdDestroyOp(md) EXCEPT !.last = "destroy"]
  /\ MdOthers

\* a click on a trigger, a close button or a nav link of the modal
MdClick ==
  /\ comp = "md" /\ md.built
  /\ \/ /\ "trigger" \in md.listeners
        /\ md.isOpen \/ md.onOpenCalls < MaxOpens
        /\ md' = [MdToggleOp(md) EXCEPT !.last = "triggerClick"]
     \/ /\ "closeButton" \in md.listeners
        /\ md' = [MdCloseOp(md, FALSE) EXCEPT !.last = "closeClick"]
     \/ /\ "navLink" \in md.listeners
        /\ md' = [MdCloseOp(md, TRUE) EXCEPT !.last = "navClick"]
  /\ MdOthers

MdEscape ==
  /\ comp = "md" /\ "keydown" \in md.listeners
  /\ md' = [MdEscapeOp(md) EXCEPT !.last = "escape"]
  /\ MdOthers

MdResize ==
  /\ comp = "md" /\ "resize" \in md.listeners
  /\ \E wide \in BOOLEAN :
       md' = [MdResizeOp(md, wide) EXCEPT !.last = "resize"]
  /\ MdOthers

MdOpenTimer ==
  /\ comp = "md" /\ md.openTimers > 0
  /\ md' = [MdOpenTimerOp(md) EXCEPT !.last = "openTimer"]
  /\ MdOthers

MdCloseTimer ==
  /\ comp = "md" /\ md.closeTimers > 0
  /\ md' = [MdCloseTimerOp(md) EXCEPT !.last = "closeTimer"]
  /\ MdOthers

\* ======================= GlitchAnimator =======================

\* timeoutId is "null", "pending" (the id of a timer still to fire) or
\* "stale" (the id of a timer that fired or was cleared); untracked counts
\* the pending cycle timers timeoutId no longer refers to
GlIdle ==
  [built |-> FALSE, element |-> FALSE, isRunning |-> FALSE,
   timeoutId |-> "null", untracked |-> 0, durTimers |-> 0,
   onceTimers |-> 0, detachedDur |-> 0, detachedOnce |-> 0,
   glitch |-> FALSE, stopped |-> FALSE, last |-> "new"]

\* constructor
GlNew(element) == [GlIdle EXCEPT !.built = TRUE, !.element = element]

\* _scheduleNextGlitch
GlScheduleNextGlitch(s) ==
  IF ~s.isRunning THEN s
  ELSE [s EXCEPT !.timeoutId = "pending",
                 !.untracked = IF s.timeoutId = "pending" THEN @ + 1 ELSE @]

\* start()
GlStartOp(s) ==
  IF s.isRunning THEN s
  ELSE GlScheduleNextGlitch([s EXCEPT !.isRunning = TRUE,
                                      !.stopped = FALSE])

\* stop()
GlStopOp(s) ==
  [s EXCEPT !.isRunning = FALSE, !.stopped = TRUE,
            !.timeoutId = "null"]

\* triggerOnce()
GlTriggerOnceOp(s) ==
  IF ~s.element THEN s
  ELSE [s EXCEPT !.glitch = TRUE, !.onceTimers = @ + 1]

\* _executeGlitch
GlExecuteGlitch(s) ==
  IF ~s.element THEN [GlStopOp(s) EXCEPT !.last = "noElement"]
  ELSE [s EXCEPT !.glitch = TRUE, !.durTimers = @ + 1, !.last = "glitch"]

\* the duration callback of _executeGlitch
GlDurationOp(s) ==
  GlScheduleNextGlitch([s EXCEPT !.glitch = FALSE, !.durTimers = @ - 1])

\* the duration callback of triggerOnce that leaves the class on
GlOnceOp_KeepClass(s) == [s EXCEPT !.onceTimers = @ - 1]

\* the duration callback of triggerOnce
GlOnceOp(s) == [s EXCEPT !.glitch = FALSE, !.onceTimers = @ - 1]

\* the duration callback of _executeGlitch whose element has left the page:
\* the class is removed from that old element
GlDetachedDurationOp(s) ==
  GlScheduleNextGlitch([s EXCEPT !.detachedDur = @ - 1])

\* the duration callback of triggerOnce whose element has left the page
GlDetachedOnceOp(s) == [s EXCEPT !.detachedOnce = @ - 1]

GlPendingTimers(s) ==
  (IF s.timeoutId = "pending" THEN 1 ELSE 0) + s.untracked + s.durTimers
  + s.onceTimers + s.detachedDur + s.detachedOnce

GlOthers == UNCHANGED <<comp, ic, tw, tp, ty, tc, it, md, pb>>

GlConstruct ==
  /\ comp = "gl" /\ ~gl.built
  /\ \E element \in BOOLEAN : gl' = GlNew(element)
  /\ GlOthers

GlStart ==
  /\ comp = "gl" /\ gl.built /\ GlPendingTimers(gl) < MaxTimers
  /\ gl' = [GlStartOp(gl) EXCEPT !.last = "start"]
  /\ GlOthers

GlStop ==
  /\ comp = "gl" /\ gl.built
  /\ gl' = [GlStopOp(gl) EXCEPT !.last = "stop"]
  /\ GlOthers

GlTriggerOnce ==
  /\ comp = "gl" /\ gl.built /\ GlPendingTimers(gl) < MaxTimers
  /\ gl' = [GlTriggerOnceOp(gl) EXCEPT !.last = "triggerOnce"]
  /\ GlOthers

\* a cycle timer set by _scheduleNextGlitch fires: the one timeoutId holds
\* or one it lost track of
GlDelayTimer ==
  /\ comp = "gl"
  /\ \/ /\ gl.timeoutId = "pending"
        /\ gl' = GlExecuteGlitch([gl EXCEPT !.timeoutId = "stale"])
     \/ /\ gl.untracked > 0
        /\ gl' = GlExecuteGlitch([gl EXCEPT !.untracked = @ - 1])
  /\ GlOthers

GlDurationTimer ==
  /\ comp = "gl" /\ gl.durTimers > 0
  /\ gl' = [GlDurationOp(gl) EXCEPT !.last = "duration"]
  /\ GlOthers

GlOnceTimer ==
  /\ comp = "gl" /\ gl.onceTimers > 0
  /\ gl' = [GlOnceOp(gl) EXCEPT !.last = "once"]
  /\ GlOthers

GlDetachedDurationTimer ==
  /\ comp = "gl" /\ gl.detachedDur > 0
  /\ gl' = [GlDetachedDurationOp(gl) EXCEPT !.last = "duration"]
  /\ GlOthers

GlDetachedOnceTimer ==
  /\ comp = "gl" /\ gl.detachedOnce > 0
  /\ gl' = [GlDetachedOnceOp(gl) EXCEPT !.last = "once"]
  /\ GlOthers

\* the page removes the element, or inserts a new element with the id; the
\* pending duration callbacks keep the element they were set for
GlDomChange ==
  /\ comp = "gl" /\ gl.built
  /\ gl' = IF gl.element
           THEN [gl EXCEPT !.element = FALSE, !.last = "dom",
                           !.glitch = FALSE,
                           !.detachedDur = @ + gl.durTimers,
                           !.durTimers = 0,
                           !.detachedOnce = @ + gl.onceTimers,
                           !.onceTimers = 0]
           ELSE [gl EXCEPT !.element = TRUE, !.last = "dom"]
  /\ GlOthers

\* ======================= ProgressBar =======================

\* the percentage prop of a mounted bar
Percentages == 0..MaxPercent

\* the component before it is mounted; timerPercent is the currentPercent
\* of the render whose effect set the pending timer
PbIdle ==
  [mounted |-> FALSE, percentage |-> 0, currentPercent |-> 0,
   timer |-> FALSE, timerPercent |-> 0, pend |-> 0, ticks |-> 0,
   lateTimers |-> 0, loads |-> 0, last |-> "new"]

\* the updater that adds 3 without the bound
PbStep_NoClamp(prev, percentage) == prev + 3

\* the updater prev => Math.min(prev + 3, percentage)
PbStep(prev, percentage) ==
  IF prev + 3 < percentage THEN prev + 3 ELSE percentage

\* the queued updaters applied in order
RECURSIVE PbApply(_, _, _)
PbApply(prev, n, percentage) ==
  IF n = 0 THEN prev ELSE PbApply(PbStep(prev, percentage), n - 1, percentage)

\* the effect: a 15 ms timer is set whatever currentPercent is
PbEffect(s) ==
  [s EXCEPT !.timer = TRUE, !.timerPercent = s.currentPercent,
            !.lateTimers = IF s.currentPercent = s.percentage
                           THEN @ + 1 ELSE @]

\* the cleanup the effect returned
PbCleanup(s) == [s EXCEPT !.timer = FALSE]

\* first render and its effect
PbMountOp(percentage, loads) ==
  PbEffect([PbIdle EXCEPT !.mounted = TRUE, !.percentage = percentage,
                          !.loads = loads, !.last = "mount"])

\* the callback of the timer, with currentPercent of the render that set it
PbTickOp(s) ==
  [s EXCEPT !.timer = FALSE, !.ticks = @ + 1, !.last = "tick",
            !.pend = IF s.timerPercent < s.percentage THEN @ + 1 ELSE @]

\* a re-render; the effect has dependencies [currentPercent, percentage]
PbRenderOp(s) ==
  LET c == PbApply(s.currentPercent, s.pend, s.percentage)
      s1 == [s EXCEPT !.currentPercent = c, !.pend = 0, !.last = "render"]
  IN IF c # s.currentPercent THEN PbEffect(PbCleanup(s1)) ELSE s1

PbUnmountOp(s) ==
  [PbCleanup(s) EXCEPT !.mounted = FALSE, !.pend = 0, !.last = "unmount"]

PbOthers == UNCHANGED <<comp, ic, tw, tp, ty, tc, it, md, gl>>

PbMount ==
  /\ comp = "pb" /\ ~pb.mounted /\ pb.loads < MaxLoads
  /\ \E percentage \in Percentages :
       pb' = PbMountOp(percentage, pb.loads + 1)
  /\ PbOthers

PbTick ==
  /\ comp = "pb" /\ pb.mounted /\ pb.timer
  /\ pb' = PbTickOp(pb)
  /\ PbOthers

PbRender ==
  /\ comp = "pb" /\ pb.mounted /\ pb.pend > 0
  /\ pb' = PbRenderOp(pb)
  /\ PbOthers

PbUnmount ==
  /\ comp = "pb" /\ pb.mounted
  /\ pb' = PbUnmountOp(pb)
  /\ PbOthers

Init ==
  /\ comp \in Comps
  /\ ic = IcIdle
  /\ tw = TwIdle
  /\ tp = TpIdle
  /\ ty = TyIdle
  /\ tc = TcIdle
  /\ it = ItIdle
  /\ md = MdIdle
  /\ gl = GlIdle
  /\ pb = PbIdle

Next ==
  \/ IcPageLoad \/ IcInit \/ IcSkip \/ IcEvent \/ IcComplete \/ IcDestroy
  \/ IcFadeTimer
  \/ TwMount \/ TwTick \/ TwRender \/ TwSkip \/ TwUnmount
  \/ TpMount \/ TpTick \/ TpRender \/ TpKeydown \/ TpUnmount
  \/ TyCall \/ TyStartDelay \/ TyTick
  \/ TcCall \/ TcDelay \/ TcTick \/ TcCancel
  \/ ItCall
  \/ MdConstruct \/ MdOpen \/ MdClose \/ MdToggle \/ MdDestroy \/ MdClick
  \/ MdEscape \/ MdResize \/ MdOpenTimer \/ MdCloseTimer
  \/ GlConstruct \/ GlStart \/ GlStop \/ GlTriggerOnce \/ GlDelayTimer
  \/ GlDurationTimer \/ GlOnceTimer \/ GlDetachedDurationTimer
  \/ GlDetachedOnceTimer \/ GlDomChange
  \/ PbMount \/ PbTick \/ PbRender \/ PbUnmount

Spec == Init /\ [][Next]_vars

\* fair firing of the timers and of React's scheduled renders
LiveSpec ==
  /\ Spec
  /\ WF_vars(TwTick) /\ WF_vars(TwRender)
  /\ WF_vars(TpTick) /\ WF_vars(TpRender)
  /\ WF_vars(TyStartDelay) /\ WF_vars(TyTick)
  /\ WF_vars(TcDelay) /\ WF_vars(TcTick)
  /\ WF_vars(IcFadeTimer)
  /\ WF_vars(GlDurationTimer) /\ WF_vars(GlOnceTimer)
  /\ WF_vars(PbTick) /\ WF_vars(PbRender)

\* ======================= properties =======================

\* C1: in every state after a skip took effect (IntroController.skip(),
\* the hook's skip(), a keydown in TerminalPrompt) the session-storage key
\* of that animation is set.
C1_SkipSetsFlag ==
  /\ ic.isSkipped => ic.flag
  /\ tw.skipped => tw.flag
  /\ tp.skipped => tp.flag

\* C2 as stated: init() called while the storage key is set returns false,
\* leaves the intro element removed and attaches no skip handler, for every
\* configuration and kind of page load.
C2_InitNeverReruns ==
  (ic.last = "init" /\ ic.initFlag) =>
     /\ ic.initRet = "false"
     /\ ~ic.elemInDom
     /\ ic.initAttached = 0

\* C2 amended: the same, except when showOnRefresh is true and the page
\* load is a reload.
C2_InitNeverRerunsUnlessReload ==
  (ic.last = "init" /\ ic.initFlag
     /\ ~(ic.cfg.showOnRefresh /\ ic.isReload)) =>
     /\ ic.initRet = "false"
     /\ ~ic.elemInDom
     /\ ic.initAttached = 0

C2_Witness ==
  /\ ic.last = "init" /\ ic.initFlag /\ ic.initElem
  /\ ~ic.cfg.showOnRefresh /\ ic.initRet = "false" /\ ~ic.elemInDom

\* the skip handlers init() attaches when it shows the intro
IcEnabledHandlers(s) ==
  (IF s.cfg.skipOnKey THEN 1 ELSE 0) + (IF s.cfg.skipOnClick THEN 1 ELSE 0)

\* C3 as stated: with the intro element present and the key unset init()
\* returns true and attaches the skip handlers; the hook and TerminalPrompt
\* mounted with the key unset have a reveal timer scheduled.
C3_MountStartsAnimation ==
  /\ (ic.last = "init" /\ ic.initElem /\ ~ic.initFlag) =>
        (ic.initRet = "true" /\ ic.initAttached = IcEnabledHandlers(ic))
  /\ (tw.last = "mount" /\ ~tw.mountFlag) => tw.timer
  /\ (tp.last = "mount" /\ ~tp.mountFlag) => tp.timer

\* C3 amended: for IntroController additionally showOnRefresh is false or
\* the load is a reload; for the hook additionally the text is not empty.
C3_MountStartsWhenShown ==
  /\ (ic.last = "init" /\ ic.initElem /\ ~ic.initFlag
        /\ (ic.cfg.showOnRefresh => ic.isReload)) =>
        (ic.initRet = "true" /\ ic.initAttached = IcEnabledHandlers(ic))
  /\ (tw.last = "mount" /\ ~tw.mountFlag /\ tw.text # <<>>) => tw.timer
  /\ (tp.last = "mount" /\ ~tp.mountFlag) => tp.timer

C3_Witness ==
  /\ ic.last = "init" /\ ic.initElem /\ ~ic.initFlag
  /\ ic.cfg.showOnRefresh /\ ic.isReload
  /\ ic.initRet = "true" /\ ic.initAttached = 2

\* C4: isSkipped and isComplete are never both true and, of onSkip and
\* onComplete, at most one call is ever made.
C4_SkipCompleteExclusive ==
  /\ ~(ic.isSkipped /\ ic.isComplete)
  /\ ic.onSkipCalls + ic.onCompleteCalls <= 1

C4_Witness ==
  ic.isSkipped /\ ic.onSkipCalls = 1 /\ ic.last = "complete"

\* C5: when the key is set at mount no reveal tick runs, and the displayed
\* text is empty or the full text.
C5_NoAnimationWhenFlagSet ==
  /\ tw.mountFlag => (tw.ticks = 0 /\ tw.displayText \in {<<>>, tw.text})
  /\ tp.mountFlag => (tp.ticks = 0 /\ tp.displayText \in {<<>>, fullText})

\* C6: once the reveal index has reached the text length and the renders
\* it caused are done, the key is set and the animation is complete;
\* IntroController.complete() taking effect sets the key.
C6_CompletionSetsFlag ==
  /\ (tw.mounted /\ ~TwPending(tw) /\ tw.index = Len(tw.text)) =>
        (tw.flag /\ tw.isComplete)
  /\ (tp.mounted /\ ~TpPending(tp) /\ tp.currentIndex = Len(fullText)) =>
        (tp.flag /\ tp.hasPlayed)
  /\ ic.isComplete => ic.flag

C6_Witness ==
  /\ tw.mounted /\ ~TwPending(tw) /\ ~tw.skipped /\ ~tw.mountFlag
  /\ Len(tw.text) > 1 /\ tw.ticks = Len(tw.text)
  /\ tw.isComplete /\ tw.flag

\* C7: every reveal index stays within 0 .. length of its text.
C7_IndexWithinText ==
  /\ tw.index \in 0..Len(tw.text)
  /\ tp.currentIndex \in 0..Len(fullText)
  /\ TpShownIndex(tp) \in 0..Len(fullText)
  /\ ty.index \in 0..Len(ty.text)
  /\ tc.index \in 0..Len(tc.text)

C7_Witness ==
  ty.phase = "done" /\ Len(ty.text) > 1 /\ ty.index = Len(ty.text)

\* C8: after a skip took effect the text to display is the full text, the
\* reveal index is the text length and no reveal timer is pending.
C8_SkipYieldsFullText ==
  /\ (tw.mounted /\ tw.skipped) =>
        /\ TwShown(tw) = tw.text
        /\ tw.index = Len(tw.text)
        /\ ~tw.timer
  /\ (tp.mounted /\ tp.skipped) =>
        /\ tp.displayText = fullText
        /\ tp.currentIndex = Len(fullText)
        /\ ~tp.timer

C8_Witness ==
  /\ tw.mounted /\ tw.skipped /\ ~TwPending(tw)
  /\ tw.ticks > 0 /\ tw.ticks < Len(tw.text)
  /\ tw.displayText = tw.text

\* C9: one animation writes its key at most once, and exactly once when it
\* has ended by skip or completion.
C9_FlagWrittenOnce ==
  /\ ic.writes <= 1 /\ tw.writes <= 1 /\ tp.writes <= 1
  /\ (ic.isSkipped \/ ic.isComplete) => ic.writes = 1
  /\ (tw.isComplete /\ ~tw.mountFlag) => tw.writes = 1
  /\ (tp.hasPlayed /\ ~tp.mountFlag) => tp.writes = 1

\* C10: a mounted animation ends (complete, full text displayed), a started
\* typeWriter resolves with all of the text appended; the terminal state is
\* entered once.
C10_AnimationEnds ==
  /\ tw.mounted ~> (~tw.mounted \/ (tw.isComplete /\ tw.displayText = tw.text))
  /\ tp.mounted ~> (~tp.mounted \/ (tp.hasPlayed /\ tp.displayText = fullText))
  /\ (ty.phase \in {"delay", "typing"}) ~>
        (ty.promise = "resolved" /\ ty.textContent = ty.base \o ty.text)
  /\ [](ty.resolves <= 1)
  /\ [][(tw.mounted /\ tw.isComplete /\ tw'.mounted) => tw'.isComplete]_vars
  /\ [][(tp.mounted /\ tp.hasPlayed /\ tp'.mounted) => tp'.hasPlayed]_vars

C10_Witness ==
  /\ tp.mounted /\ ~tp.mountFlag /\ ~tp.skipped
  /\ tp.ticks = Len(fullText) /\ tp.hasPlayed /\ tp.displayText = fullText

\* what a finished IntroController must keep
IcCore(s) ==
  <<s.isSkipped, s.isComplete, s.onSkipCalls, s.onCompleteCalls, s.hidden,
    s.elemInDom, s.skipHandlers, s.fadeTimers, s.flag, s.writes>>

\* C11: once IntroController is skipped or complete, the hook has
\* isComplete, or TerminalPrompt has hasPlayed, a later tick, keypress,
\* click, skip() or complete() changes neither that state nor the displayed
\* text nor the storage, and fires no callback.
C11_TerminalStatesFinal ==
  [][/\ ((ic.isSkipped \/ ic.isComplete) /\ ic'.loads = ic.loads
           /\ ic'.last \in {"skip", "complete", "keydown", "click"}) =>
          IcCore(ic') = IcCore(ic)
     /\ (tw.mounted /\ tw.isComplete /\ tw'.last \in {"tick", "skip"}) =>
          [tw' EXCEPT !.last = tw.last] = tw
     /\ (tp.mounted /\ tp.hasPlayed /\ tp'.last \in {"tick", "keydown"}) =>
          /\ tp'.displayText = tp.displayText
          /\ tp'.currentIndex = tp.currentIndex
          /\ tp'.hasPlayed /\ ~tp'.timer
          /\ tp'.flag = tp.flag /\ tp'.writes = tp.writes]_vars

C11_Witness ==
  /\ ic.isComplete /\ ic.last = "skip" /\ ic.cfg.onSkip
  /\ ic.onSkipCalls = 0 /\ ic.onCompleteCalls = 1

\* what holds of IntroController, ModalController and GlitchAnimator when
\* their element is missing: the call returns and leaves everything alone
MissingElementReturns ==
  /\ (ic.last = "init" /\ ~ic.initElem) =>
        (ic.initRet = "false" /\ ic.initAttached = 0 /\ ~ic.introElement)
  /\ (md.built /\ ~md.modal) => (md.listeners = {} /\ ~md.isOpen)
  /\ (gl.last = "triggerOnce" /\ ~gl.element) => ~gl.glitch
  /\ gl.last = "noElement" => (~gl.element /\ ~gl.glitch)

\* C12 as stated: with the target element absent none of the calls throws
\* or rejects.
C12_MissingElementNoop ==
  /\ MissingElementReturns
  /\ (ty.phase # "idle" /\ ~ty.element) => ty.promise # "rejected"
  /\ (tc.phase # "idle" /\ ~tc.element) => tc.promise # "rejected"
  /\ (it.called /\ ~it.element) => ~it.threw

\* C12 amended: IntroController.init(), the ModalController constructor and
\* GlitchAnimator return; typeWriter and typeWriterCancellable reject and
\* instantText throws, all three without touching the DOM or a timer.
C12_MissingElementHandled ==
  /\ MissingElementReturns
  /\ (ty.phase # "idle" /\ ~ty.element) =>
        (ty.promise = "rejected" /\ ~ty.interval /\ ty.textContent = ty.base)
  /\ (tc.phase # "idle" /\ ~tc.element) =>
        (tc.promise = "rejected" /\ ~tc.interval /\ ~tc.delayTimer
           /\ tc.textContent = tc.base)
  /\ (it.called /\ ~it.element) => (it.threw /\ it.textContent = it.base)

C12_Witness ==
  it.called /\ ~it.element /\ it.threw /\ it.text # <<>>

\* C13: no step unsets a storage key, and hasPlayed of a mounted hook never
\* goes back to false.
C13_FlagNeverReset ==
  [][/\ ic.flag => ic'.flag
     /\ tw.flag => tw'.flag
     /\ tp.flag => tp'.flag
     /\ (tw.hasPlayed /\ tw'.loads = tw.loads) => tw'.hasPlayed
     /\ (tp.hasPlayed /\ tp'.loads = tp.loads) => tp'.hasPlayed]_vars

C13_Witness ==
  ic.flag /\ ic.isComplete /\ ic.last = "destroy" /\ ic.loads = 1

IsPrefix(a, b) == Len(a) <= Len(b) /\ SubSeq(b, 1, Len(a)) = a

\* C14: in every step the reveal index does not decrease and the text
\* displayed before the step is a prefix of the text displayed after it.
C14_RevealNeverShrinks ==
  [][/\ (tw.mounted /\ tw'.mounted) =>
          (tw'.index >= tw.index /\ IsPrefix(tw.displayText, tw'.displayText))
     /\ (tp.mounted /\ tp'.mounted) =>
          /\ tp'.currentIndex >= tp.currentIndex
          /\ IsPrefix(tp.displayText, tp'.displayText)
     /\ ty.phase # "idle" =>
          (ty'.index >= ty.index /\ IsPrefix(ty.textContent, ty'.textContent))
    ]_vars

\* C15: after the hook's skip() no reveal callback runs; an unmounted
\* component's displayed text stays as it is; after cancel() nothing is
\* appended to element.textContent.
C15_ClearedTimerAppendsNothing ==
  [][/\ (tw.mounted /\ tw.skipped /\ tw'.mounted) => tw'.ticks = tw.ticks
     /\ (~tw.mounted /\ ~tw'.mounted) =>
          (tw'.displayText = tw.displayText /\ tw'.ticks = tw.ticks)
     /\ (~tp.mounted /\ ~tp'.mounted) =>
          (tp'.displayText = tp.displayText /\ tp'.ticks = tp.ticks)
     /\ tc.cancelled =>
          (tc'.textContent = tc.textContent /\ tc'.index = tc.index)]_vars

C15_Witness ==
  /\ tc.cancelled /\ tc.options.startDelay /\ ~tc.delayTimer
  /\ tc.phase = "delay" /\ tc.text # <<>> /\ tc.textContent = tc.base

\* the indices 0 .. n-1 in increasing order
Indices(n) == [i \in 1..n |-> i - 1]

\* C16: while typeWriter types, the element holds the first index
\* characters, onCharacter was called once for each of them in order and
\* onComplete not yet; once resolved all characters are there, onComplete
\* was called once and the promise resolved once.
C16_TypeWriterResolves ==
  /\ ty.resolves <= 1 /\ ty.completes <= 1
  /\ (ty.element /\ ty.text # <<>> /\ ty.phase # "idle") =>
        /\ ty.textContent = ty.base \o SubSeq(ty.text, 1, ty.index)
        /\ ty.options.onCharacter => ty.chars = Indices(ty.index)
        /\ ty.promise \in {"pending", "resolved"}
        /\ ty.promise = "pending" => (ty.completes = 0 /\ ty.resolves = 0)
        /\ ty.promise = "resolved" =>
              /\ ty.index = Len(ty.text) /\ ty.resolves = 1 /\ ~ty.interval
              /\ ty.options.onComplete => ty.completes = 1

C16_Witness ==
  /\ ty.promise = "resolved" /\ Len(ty.text) > 1 /\ ty.options.startDelay
  /\ ty.options.onCharacter /\ ty.options.onComplete
  /\ ty.completes = 1 /\ Len(ty.chars) = Len(ty.text)

\* C17: with showOnRefresh = false, once an intro that init() showed has
\* ended by skip() or complete(), every later init() of the session
\* returns false.
C17_ShownOncePerSession ==
  (ic.shownEnded /\ ic.last = "init" /\ ~ic.cfg.showOnRefresh) =>
     ic.initRet = "false"

\* C18: with showOnRefresh = true and the intro element present, init()
\* returns true exactly on a reload, whatever the storage key.
C18_ShowOnRefreshFollowsReload ==
  (ic.last = "init" /\ ic.cfg.showOnRefresh /\ ic.initElem) =>
     (ic.initRet = "true" <=> ic.isReload)

C18_Witness ==
  /\ ic.last = "init" /\ ic.cfg.showOnRefresh /\ ic.initElem
  /\ ic.initFlag /\ ic.isReload /\ ic.initRet = "true"

\* C19: after destroy() no trigger click, close-button click, nav-link
\* click, Escape keydown or resize changes the controller or the DOM or
\* fires a callback.
C19_DestroyDetaches ==
  [][(md.destroyed /\ md'.last \in {"triggerClick", "closeClick", "navClick",
                                     "escape", "resize"}) =>
        [md' EXCEPT !.last = md.last] = md]_vars

\* C20: between stop() and the next start() the cycle executes no glitch.
C20_StopStopsCycle == ~(gl.stopped /\ gl.last = "glitch")

\* C21: once cancel() has been called on a typeWriterCancellable whose
\* promise is still pending, the promise is eventually rejected with
\* 'Typewriter cancelled'.
C21_CancelSettles ==
  (tc.cancelled /\ tc.promise = "pending") ~> (tc.promise = "cancelled")

\* the timers of the glitch cycle that are pending: the delay timers set by
\* _scheduleNextGlitch and the duration timers set by _executeGlitch
GlCycleTimers(s) ==
  (IF s.timeoutId = "pending" THEN 1 ELSE 0) + s.untracked + s.durTimers
  + s.detachedDur

\* C22: a GlitchAnimator never has more than one pending timer of its
\* glitch cycle, and start() on a running animator schedules nothing.
C22_SingleCycle ==
  [][/\ GlCycleTimers(gl') <= 1
     /\ (gl.isRunning /\ gl'.last = "start") =>
           GlCycleTimers(gl') = GlCycleTimers(gl)]_vars

\* C23: whenever the modal is open its display is 'flex' and the body's
\* overflow is 'hidden'.
C23_OpenIsVisible ==
  md.isOpen => (md.display = "flex" /\ md.overflow = "hidden")

\* C24: whenever the modal is closed and none of its timers is pending, it
\* has display 'none', the classes opacity-0 and invisible, not opacity-100,
\* and the body's overflow is ''.
C24_ClosedIsHidden ==
  (md.built /\ md.modal /\ ~md.isOpen /\ md.openTimers = 0
   /\ md.closeTimers = 0) =>
     /\ md.display = "none" /\ md.overflow = ""
     /\ md.opacity0 /\ md.invisible /\ ~md.opacity100

\* the controller and the page without the record of the last operation
MdCore(s) == [s EXCEPT !.last = "new", !.destroyed = FALSE]

\* C25: onOpen is called only when the modal goes from closed to open and
\* onClose only when it goes from open to closed, so the number of onOpen
\* calls exceeds the number of onClose calls by one while the modal is open
\* and equals it otherwise; open() on an open modal and close() on a closed
\* one change nothing.
C25_CallbacksAlternate ==
  [][/\ md'.onOpenCalls - md'.onCloseCalls = (IF md'.isOpen THEN 1 ELSE 0)
     /\ md'.onOpenCalls # md.onOpenCalls =>
           /\ ~md.isOpen /\ md'.isOpen
           /\ md'.onOpenCalls = md.onOpenCalls + 1
           /\ md'.onCloseCalls = md.onCloseCalls
     /\ md'.onCloseCalls # md.onCloseCalls =>
           /\ md.isOpen /\ ~md'.isOpen
           /\ md'.onCloseCalls = md.onCloseCalls + 1
           /\ md'.onOpenCalls = md.onOpenCalls
     /\ (md.isOpen /\ md'.last = "open") => MdCore(md') = MdCore(md)
     /\ (~md.isOpen /\ md'.last = "close") => MdCore(md') = MdCore(md)]_vars

C25_Witness ==
  /\ md.onOpenCalls = 2 /\ md.onCloseCalls = 1 /\ md.isOpen
  /\ md.last = "open"

\* C26: when the modal element exists, its aria-hidden is 'false' exactly
\* when the modal is open, and the triggers' aria-expanded is 'true' exactly
\* when it is open.
C26_AriaMatchesOpen ==
  (md.built /\ md.modal) =>
     /\ (md.ariaHidden = "false") <=> md.isOpen
     /\ md.triggers > 0 => ((md.ariaExpanded = "true") <=> md.isOpen)

C26_Witness ==
  /\ md.modal /\ md.triggers > 0 /\ ~md.isOpen /\ md.onCloseCalls > 0
  /\ md.ariaHidden = "true" /\ md.ariaExpanded = "false"

\* C27: a controller built without its modal element never opens, has no
\* listener, calls neither callback, and open(), close(), toggle() and
\* destroy() change nothing.
C27_MissingModalInert ==
  [][(md.built /\ ~md.modal) =>
        /\ ~md.isOpen /\ md.listeners = {}
        /\ md.onOpenCalls = 0 /\ md.onCloseCalls = 0
        /\ MdCore(md') = MdCore(md)]_vars

C27_Witness ==
  /\ md.built /\ ~md.modal /\ md.last \in {"open", "toggle"}

\* C28: right after skip(), complete(), destroy() or a skip handler's event
\* the controller has no skip handler registered.
C28_HandlersRemoved ==
  ic.last \in {"skip", "complete", "destroy", "keydown", "click"} =>
     ic.skipHandlers = <<>>

\* C29: an intro element that was hidden by skip() or complete() does not
\* stay in the DOM of its page for ever.
C29_HiddenIntroRemoved ==
  (ic.hidden /\ ic.elemInDom) ~> ~(ic.hidden /\ ic.elemInDom)

\* C30: the text displayed is a prefix of the full text and, when no state
\* update is waiting for a render, its length is the reveal index.
C30_DisplayIsPrefix ==
  /\ tw.mounted =>
        /\ IsPrefix(tw.displayText, tw.text)
        /\ ~TwPending(tw) => Len(tw.displayText) = tw.index
  /\ tp.mounted =>
        /\ IsPrefix(tp.displayText, fullText)
        /\ Len(tp.displayText) = tp.currentIndex

\* C31: whenever the element carries the 'glitch' class the class is
\* eventually removed, and an element with no pending timer does not carry
\* it.
C31_GlitchEnds ==
  /\ gl.glitch ~> ~gl.glitch
  /\ [](GlPendingTimers(gl) = 0 => ~gl.glitch)

C31_Witness ==
  /\ gl.element /\ ~gl.glitch /\ gl.last = "once" /\ GlPendingTimers(gl) = 0

\* the cycle timers that will call _executeGlitch
GlDelayTimers(s) == (IF s.timeoutId = "pending" THEN 1 ELSE 0) + s.untracked

\* C32: right after a scheduled glitch found its element missing, the
\* animator is not running, timeoutId is null and no glitch is scheduled.
C32_MissingElementStops ==
  gl.last = "noElement" =>
     (~gl.isRunning /\ gl.timeoutId = "null" /\ GlDelayTimers(gl) = 0)

\* what holds of the fill whatever happens after the target is reached:
\* currentPercent never decreases, grows by at most 3 in a step, never
\* exceeds percentage, and eventually equals percentage unless the bar is
\* unmounted first
PbClimbs ==
  /\ [][(pb.mounted /\ pb'.mounted) =>
           /\ pb'.currentPercent >= pb.currentPercent
           /\ pb'.currentPercent - pb.currentPercent <= 3]_vars
  /\ [](pb.mounted => pb.currentPercent <= pb.percentage)
  /\ pb.mounted ~> (~pb.mounted \/ pb.currentPercent = pb.percentage)

\* C33: the fill climbs to percentage as above, and no timer is set once
\* currentPercent equals percentage.
C33_FillClimbsAndStops ==
  /\ PbClimbs
  /\ [](pb.lateTimers = 0)

\* C33 amended: the fill climbs to percentage as above; once currentPercent
\* equals percentage exactly one more timer is set, and its callback queues
\* no update.
C33_FillClimbsThenRests ==
  /\ PbClimbs
  /\ [](pb.lateTimers <= 1)
  /\ []((pb.mounted /\ pb.currentPercent = pb.percentage) =>
          (pb.pend = 0 /\ (pb.timer \/ pb.lateTimers = 1)))

C33_Witness ==
  /\ pb.mounted /\ pb.percentage > 3 /\ pb.currentPercent = pb.percentage
  /\ pb.last = "tick" /\ ~pb.timer /\ pb.lateTimers = 1

====
